---------------------------- MODULE Spec2Model ----------------------------
(***************************************************************************)
(* Model of the ao-io-posix native binding layer (two binding generations: *)
(* com/aoindustries/io/unix "unix" and com/aoapps/io/posix "posix").       *)
(*                                                                         *)
(* Every exported JNI function is one action.  Its body is the C function  *)
(* translated statement by statement; each statement hands on a machine    *)
(* record m (errno, heap, syscall log, class lookups, thrown exceptions,   *)
(* open descriptors) to the next.                                          *)
(* What the C code cannot decide (whether an allocation succeeds, what the *)
(* kernel answers, what a JVM call leaves in errno) is an oracle record    *)
(* drawn with \E by the action.                                            *)
(***************************************************************************)
EXTENDS Integers, Sequences, FiniteSets, TLC

VARIABLES
    errno,      \* the process-wide error code (extern int errno)
    heap,       \* buffers still allocated between two native calls
    openFds,    \* descriptors opened by this layer and still open
    jstat,      \* the caller's Stat object handed to UnixFile.getStat0
    fs,         \* the files whose times only this process changes, by path
    call,       \* the native call that has just returned (or NoCall)
    probe       \* the pure functions applied on their own (ClassifierSpec, CodecSpec)

vars == <<errno, heap, openFds, jstat, fs, call, probe>>

(***************************************************************************)
(* <errno.h> error codes (Linux values) tested by getErrorType.            *)
(***************************************************************************)
EPERM == 1
ENOENT == 2
EINTR == 4
EIO == 5
EBADF == 9
ENOMEM == 12
EACCES == 13
EFAULT == 14
EEXIST == 17
EXDEV == 18
ENOTDIR == 20
EINVAL == 22
ENOSPC == 28
EROFS == 30
EMLINK == 31
ENAMETOOLONG == 36
ENOSYS == 38
ELOOP == 40

(***************************************************************************)
(* aocode_shared.h: the exception class names.                             *)
(***************************************************************************)
FILE_NOT_FOUND_EXCEPTION == "java/io/FileNotFoundException"
IO_EXCEPTION == "java/io/IOException"
ILLEGAL_ARGUMENT_EXCEPTION == "java/lang/IllegalArgumentException"
INTERRUPTED_IO_EXCEPTION == "java/io/InterruptedIOException"
NO_SUCH_METHOD_EXCEPTION == "java/lang/NoSuchMethodException"
OUT_OF_MEMORY_EXCEPTION == "java/lang/OutOfMemoryError"
RUNTIME_EXCEPTION == "java/lang/RuntimeException"
SECURITY_EXCEPTION == "java/lang/SecurityException"

\* A seeded slip in the posix table: ENOTDIR classified like ENOENT.
getErrorType_posix_enotdir(err) ==
    IF err = EACCES THEN SECURITY_EXCEPTION
    ELSE IF err = EBADF THEN IO_EXCEPTION
    ELSE IF err = EEXIST THEN IO_EXCEPTION
    ELSE IF err = EFAULT THEN RUNTIME_EXCEPTION
    ELSE IF err = EINTR THEN INTERRUPTED_IO_EXCEPTION
    ELSE IF err = EINVAL THEN ILLEGAL_ARGUMENT_EXCEPTION
    ELSE IF err = EIO THEN IO_EXCEPTION
    ELSE IF err = ELOOP THEN FILE_NOT_FOUND_EXCEPTION
    ELSE IF err = EMLINK THEN IO_EXCEPTION
    ELSE IF err = ENAMETOOLONG THEN ILLEGAL_ARGUMENT_EXCEPTION
    ELSE IF err = ENOENT THEN FILE_NOT_FOUND_EXCEPTION
    ELSE IF err = ENOMEM THEN OUT_OF_MEMORY_EXCEPTION
    ELSE IF err = ENOSPC THEN IO_EXCEPTION
    ELSE IF err = ENOSYS THEN NO_SUCH_METHOD_EXCEPTION
    ELSE IF err = ENOTDIR THEN FILE_NOT_FOUND_EXCEPTION
    ELSE IF err = EPERM THEN SECURITY_EXCEPTION
    ELSE IF err = EROFS THEN IO_EXCEPTION
    ELSE IF err = EXDEV THEN IO_EXCEPTION
    ELSE RUNTIME_EXCEPTION

\* main/c/com/aoapps/io/posix/aocode_shared.c: getErrorType
getErrorType_posix(err) ==
    IF err = EACCES THEN SECURITY_EXCEPTION
    ELSE IF err = EBADF THEN IO_EXCEPTION
    ELSE IF err = EEXIST THEN IO_EXCEPTION
    ELSE IF err = EFAULT THEN RUNTIME_EXCEPTION
    ELSE IF err = EINTR THEN INTERRUPTED_IO_EXCEPTION
    ELSE IF err = EINVAL THEN ILLEGAL_ARGUMENT_EXCEPTION
    ELSE IF err = EIO THEN IO_EXCEPTION
    ELSE IF err = ELOOP THEN FILE_NOT_FOUND_EXCEPTION
    ELSE IF err = EMLINK THEN IO_EXCEPTION
    ELSE IF err = ENAMETOOLONG THEN ILLEGAL_ARGUMENT_EXCEPTION
    ELSE IF err = ENOENT THEN FILE_NOT_FOUND_EXCEPTION
    ELSE IF err = ENOMEM THEN OUT_OF_MEMORY_EXCEPTION
    ELSE IF err = ENOSPC THEN IO_EXCEPTION
    ELSE IF err = ENOSYS THEN NO_SUCH_METHOD_EXCEPTION
    ELSE IF err = ENOTDIR THEN IO_EXCEPTION
    ELSE IF err = EPERM THEN SECURITY_EXCEPTION
    ELSE IF err = EROFS THEN IO_EXCEPTION
    ELSE IF err = EXDEV THEN IO_EXCEPTION
    ELSE RUNTIME_EXCEPTION

\* A seeded drift between the copies: the unix table loses its EXDEV line.
getErrorType_unix_noexdev(err) ==
    IF err = EACCES THEN SECURITY_EXCEPTION
    ELSE IF err = EBADF THEN IO_EXCEPTION
    ELSE IF err = EEXIST THEN IO_EXCEPTION
    ELSE IF err = EFAULT THEN RUNTIME_EXCEPTION
    ELSE IF err = EINTR THEN INTERRUPTED_IO_EXCEPTION
    ELSE IF err = EINVAL THEN ILLEGAL_ARGUMENT_EXCEPTION
    ELSE IF err = EIO THEN IO_EXCEPTION
    ELSE IF err = ELOOP THEN FILE_NOT_FOUND_EXCEPTION
    ELSE IF err = EMLINK THEN IO_EXCEPTION
    ELSE IF err = ENAMETOOLONG THEN ILLEGAL_ARGUMENT_EXCEPTION
    ELSE IF err = ENOENT THEN FILE_NOT_FOUND_EXCEPTION
    ELSE IF err = ENOMEM THEN OUT_OF_MEMORY_EXCEPTION
    ELSE IF err = ENOSPC THEN IO_EXCEPTION
    ELSE IF err = ENOSYS THEN NO_SUCH_METHOD_EXCEPTION
    ELSE IF err = ENOTDIR THEN IO_EXCEPTION
    ELSE IF err = EPERM THEN SECURITY_EXCEPTION
    ELSE IF err = EROFS THEN IO_EXCEPTION
    ELSE RUNTIME_EXCEPTION

\* com/aoindustries/io/unix/aocode_shared.c: getErrorType
getErrorType_unix(err) ==
    IF err = EACCES THEN SECURITY_EXCEPTION
    ELSE IF err = EBADF THEN IO_EXCEPTION
    ELSE IF err = EEXIST THEN IO_EXCEPTION
    ELSE IF err = EFAULT THEN RUNTIME_EXCEPTION
    ELSE IF err = EINTR THEN INTERRUPTED_IO_EXCEPTION
    ELSE IF err = EINVAL THEN ILLEGAL_ARGUMENT_EXCEPTION
    ELSE IF err = EIO THEN IO_EXCEPTION
    ELSE IF err = ELOOP THEN FILE_NOT_FOUND_EXCEPTION
    ELSE IF err = EMLINK THEN IO_EXCEPTION
    ELSE IF err = ENAMETOOLONG THEN ILLEGAL_ARGUMENT_EXCEPTION
    ELSE IF err = ENOENT THEN FILE_NOT_FOUND_EXCEPTION
    ELSE IF err = ENOMEM THEN OUT_OF_MEMORY_EXCEPTION
    ELSE IF err = ENOSPC THEN IO_EXCEPTION
    ELSE IF err = ENOSYS THEN NO_SUCH_METHOD_EXCEPTION
    ELSE IF err = ENOTDIR THEN IO_EXCEPTION
    ELSE IF err = EPERM THEN SECURITY_EXCEPTION
    ELSE IF err = EROFS THEN IO_EXCEPTION
    ELSE IF err = EXDEV THEN IO_EXCEPTION
    ELSE RUNTIME_EXCEPTION

\* The copy of getErrorType linked into binding generation gen.
getErrorType(gen, err) ==
    IF gen = "unix" THEN getErrorType_unix(err) ELSE getErrorType_posix(err)


(***************************************************************************)
(* C integer conversions.  char is the signed 8-bit char of the Linux      *)
(* x86-64 ABI the library is built for; jchar is an unsigned 16-bit value. *)
(***************************************************************************)
ToChar(v) == LET b == v % 256 IN IF b >= 128 THEN b - 256 ELSE b
ToUChar(v) == v % 256
ToJChar(v) == v % 65536
\* A seeded slip: the quotient is rounded to the nearest whole number.
CDiv_round(a, b) == IF a >= 0 THEN (a + (b \div 2)) \div b ELSE 0 - (((0 - a) + (b \div 2)) \div b)

\* C integer division truncates toward zero.
CDiv(a, b) == IF a >= 0 THEN a \div b ELSE 0 - ((0 - a) \div b)

NULL == 0
NoClass == ""
NoMessage == <<>>
strerror(e) == <<"strerror", e>>

(***************************************************************************)
(* The machine record threaded through one native call.                    *)
(*   errno   : the process-wide error code                                 *)
(*   heap    : sequence of buffers; a pointer is an index, NULL is 0       *)
(*   fds     : descriptors open in this layer                              *)
(*   calls   : the POSIX calls made, in order, with their answers          *)
(*   lookups : the FindClass calls made, in order                          *)
(*   thrown  : the exceptions raised, in order                             *)
(*   na      : how many allocation requests were made so far               *)
(*   uaf/oob : a released buffer was used / an access left its buffer      *)
(*   encfail : the encoding of a string argument answered NULL             *)
(*   jstat   : the caller's Stat object (UnixFile.getStat0 fills it)       *)
(*   env     : the oracle (what the platform answers during this call)     *)
(***************************************************************************)
Machine(env) ==
    [errno |-> errno, heap |-> heap, fds |-> openFds, calls |-> <<>>,
     lookups |-> <<>>, thrown |-> <<>>, na |-> 0, uaf |-> FALSE,
     oob |-> FALSE, encfail |-> FALSE, jstat |-> jstat, fs |-> fs, env |-> env]

\* An allocation request (malloc or a JNI call that hands out memory):
\* the oracle names the ordinals of the requests that fail.
Alloc(m, kind, type, size, data) ==
    LET n == m.na + 1 IN
    IF n \in m.env.fail
    THEN [m |-> [m EXCEPT !.na = n,
                          !.errno = IF kind = "malloc" THEN ENOMEM ELSE @,
                          !.thrown = IF kind = "malloc" THEN @
                                     ELSE Append(@, [cls |-> OUT_OF_MEMORY_EXCEPTION,
                                                     msg |-> NoMessage, by |-> "jvm"])],
          p |-> NULL]
    ELSE [m |-> [m EXCEPT !.na = n,
                          !.heap = Append(@, [kind |-> kind, type |-> type, size |-> size,
                                              data |-> data, live |-> TRUE, frees |-> 0,
                                              maxw |-> Len(data) - 1])],
          p |-> Len(m.heap) + 1]

malloc(m, type, size) == Alloc(m, "malloc", type, size, <<>>)

\* free(p) and the JNI Release* calls; free(NULL) does nothing.  free leaves
\* errno alone (POSIX.1-2024, glibc 2.33).
Free(m, p) ==
    IF p = NULL THEN m
    ELSE [m EXCEPT !.heap[p].live = FALSE, !.heap[p].frees = @ + 1]

\* Any read or write through pointer p.
Use(m, p) == IF m.heap[p].live THEN m ELSE [m EXCEPT !.uaf = TRUE]

\* The bytes 0..hi of buffer p are written with data (the code only ever
\* fills its buffers from index 0 upward).
Store(m, p, data) ==
    LET u == Use(m, p) IN
    [u EXCEPT !.heap[p].data = data,
              !.heap[p].maxw = IF Len(data) - 1 > @ THEN Len(data) - 1 ELSE @,
              !.oob = @ \/ Len(data) > u.heap[p].size]

\* A seeded slip: the only zero byte is taken to be the last byte.
strlen_last(data) == IF data = <<>> THEN 0 ELSE Len(data) - 1

\* strlen: the number of bytes before the first zero byte.
strlen(data) ==
    LET Z == {i \in 1..Len(data) : data[i] = 0} IN
    IF Z = {} THEN Len(data) ELSE (CHOOSE i \in Z : \A j \in Z : i <= j) - 1

\* The C string a char* points to.
CStr(data) == SubSeq(data, 1, strlen(data))

\* JNIEnv FindClass: the classes named by this layer are on the class path,
\* so the lookup succeeds; class loading may leave any value in errno.
FindClass(m, name, from) ==
    [m |-> [m EXCEPT !.lookups = Append(@, [cls |-> name, from |-> from]),
                     !.errno = IF m.env.clob = {} THEN @
                               ELSE CHOOSE e \in m.env.clob : TRUE],
     cls |-> name]

\* JNIEnv ThrowNew
ThrowNew(m, cls, msg, by) ==
    [m EXCEPT !.thrown = Append(@, [cls |-> cls, msg |-> msg, by |-> by])]

\* A seeded slip: the class is looked up and nothing is thrown.
JNU_ThrowByName_nothrow(m, name, msg) == FindClass(m, name, {}).m

\* jni_util.c: JNU_ThrowByName
JNU_ThrowByName(m, name, msg) ==
    LET f == FindClass(m, name, {}) IN
    IF f.cls # NoClass THEN ThrowNew(f.m, f.cls, msg, "jnu") ELSE f.m

\* jni_util.c: JNU_ThrowOutOfMemoryError
JNU_ThrowOutOfMemoryError(m, msg) ==
    JNU_ThrowByName(m, "java/lang/OutOfMemoryError", msg)


(***************************************************************************)
(* Host strings.  A jstring is a sequence of jchar (0..65535); a NULL      *)
(* jstring reference is JNull.                                             *)
(***************************************************************************)
JNull == [null |-> TRUE, chars |-> <<>>]
JStr(chars) == [null |-> FALSE, chars |-> chars]

\* The automatic array of a C function: it lives until the function returns
\* and is neither malloc'ed nor free'd.
StackBuf(m, type, size) ==
    [m |-> [m EXCEPT !.heap = Append(@, [kind |-> "stack", type |-> type, size |-> size,
                                         data |-> <<>>, live |-> TRUE, frees |-> 0,
                                         maxw |-> 0 - 1])],
     p |-> Len(m.heap) + 1]
StackPop(m, p) == [m EXCEPT !.heap[p].live = FALSE]

\* A JVM allocation of a Java object (NewString, NewStringUTF, NewObject):
\* on failure the reference is NULL and an OutOfMemoryError is pending.  The
\* object lives on the Java heap, not in a buffer of this layer.
NewJavaObject(m) ==
    LET n == m.na + 1 IN
    IF n \in m.env.fail
    THEN [m |-> [m EXCEPT !.na = n,
                          !.thrown = Append(@, [cls |-> OUT_OF_MEMORY_EXCEPTION,
                                                msg |-> NoMessage, by |-> "jvm"])],
          ok |-> FALSE]
    ELSE [m |-> [m EXCEPT !.na = n], ok |-> TRUE]

\* A seeded slip: the string is built from the 512-unit automatic buffer's
\* worth of characters whatever the length.
NewString_buf512(m, p, len) ==
    LET u == Use(m, p)
        n == IF len > 512 THEN 512 ELSE len
        a == NewJavaObject([u EXCEPT !.oob = @ \/ len > Len(u.heap[p].data)])
    IN  [m |-> a.m, s |-> IF a.ok THEN JStr(SubSeq(u.heap[p].data, 1, n)) ELSE JNull]

\* JNIEnv NewString(env, unicodeChars, len)
NewString(m, p, len) ==
    LET u == Use(m, p)
        a == NewJavaObject([u EXCEPT !.oob = @ \/ len > Len(u.heap[p].data)])
    IN  [m |-> a.m, s |-> IF a.ok THEN JStr(SubSeq(u.heap[p].data, 1, len)) ELSE JNull]

\* A dropped cast in the decode loop: str1[i] = str[i] sign-extends the
\* signed char into the jchar.
decodeChar_signext(c) == ToJChar(c)

\* jni_util.c newString8859_1, loop body: str1[i] = (unsigned char)str[i]
decodeChar(c) == ToUChar(c)

\* A seeded slip: the automatic buffer is used whatever the length.
newString8859_1_nomalloc(m, str) ==
    LET s == Use(m, str).heap[str].data
        len == strlen(s)
        declared == StackBuf([Use(m, str) EXCEPT !.oob = @ \/ len = Len(s)], "jchar[]", 512)
    IN  [buf \in {declared} |->
         LET copied == Store(buf.m, buf.p, [i \in 1..len |-> decodeChar(s[i])])
         IN  [w \in {copied} |->
              LET created == NewString(w, buf.p, len)
              IN  [result \in {created} |->
                   [m |-> StackPop(result.m, buf.p), s |-> result.s]][created]][copied]][declared]

\* jni_util.c: newString8859_1.  A value bound by [x \in {v} |-> e][v] is
\* the local variable x of the C function after the statement x = v.
newString8859_1(m, str) ==
    LET s == Use(m, str).heap[str].data
        len == strlen(s)
        declared == StackBuf([Use(m, str) EXCEPT !.oob = @ \/ len = Len(s)], "jchar[]", 512)
    IN  [buf \in {declared} |->
         LET chosen == IF len > 512 THEN malloc(buf.m, "jchar[]", len) ELSE buf
         IN  [str1 \in {chosen} |->
              IF str1.p = NULL
              THEN [m |-> StackPop(JNU_ThrowOutOfMemoryError(str1.m, NoMessage), buf.p),
                    s |-> JNull]
              ELSE LET copied == Store(str1.m, str1.p, [i \in 1..len |-> decodeChar(s[i])])
                   IN  [w \in {copied} |->
                        LET created == NewString(w, str1.p, len)
                        IN  [result \in {created} |->
                             [m |-> StackPop(IF str1.p # buf.p THEN Free(result.m, str1.p)
                                             ELSE result.m, buf.p),
                              s |-> result.s]][created]][copied]][chosen]][declared]

\* A dropped range test in the encode loop: every jchar is narrowed to char.
encodeChar_narrow(unicode) == ToChar(unicode)

\* jni_util.c getString8859_1Chars, loop body
encodeChar(unicode) == IF unicode <= 255 THEN ToChar(unicode) ELSE 63

\* jni_util.c: getString8859_1Chars.  GetStringCritical returns NULL only
\* with an OutOfMemoryError pending (JNI contract).
getString8859_1Chars(m, jstr) ==
    LET len == Len(jstr.chars)
        critical == Alloc(m, "jni", "jchar[]", len, jstr.chars)
    IN  [str \in {critical} |->
         IF str.p = NULL THEN [m |-> [str.m EXCEPT !.encfail = TRUE], p |-> NULL]
         ELSE LET allocated == malloc(str.m, "char[]", len + 1)
              IN  [result \in {allocated} |->
                   IF result.p = NULL
                   THEN [m |-> [JNU_ThrowOutOfMemoryError(Free(result.m, str.p), NoMessage)
                                 EXCEPT !.encfail = TRUE],
                         p |-> NULL]
                   ELSE LET src == Use(result.m, str.p).heap[str.p].data
                            encoded == Store(Use(result.m, str.p), result.p,
                                             Append([i \in 1..len |-> encodeChar(src[i])], 0))
                        IN  [w \in {encoded} |->
                             [m |-> Free(w, str.p), p |-> result.p]][encoded]][allocated]][critical]

\* A seeded slip: the release forgets to free.
releaseString8859_1Chars_noop(m, str) == m

\* jni_util.c: releaseString8859_1Chars
releaseString8859_1Chars(m, str) == Free(m, str)

(***************************************************************************)
(* JNI modified UTF-8 (GetStringUTFChars / NewStringUTF), used by crypt0.  *)
(***************************************************************************)
UTFOf(c) ==
    IF c >= 1 /\ c <= 127 THEN <<c>>
    ELSE IF c <= 2047 THEN <<192 + (c \div 64), 128 + (c % 64)>>
    ELSE <<224 + (c \div 4096), 128 + ((c \div 64) % 64), 128 + (c % 64)>>

RECURSIVE UTFEncode(_)
UTFEncode(chars) ==
    IF chars = <<>> THEN <<>> ELSE UTFOf(Head(chars)) \o UTFEncode(Tail(chars))

RECURSIVE UTFDecode(_)
UTFDecode(b) ==
    IF b = <<>> THEN <<>>
    ELSE IF b[1] >= 224 /\ Len(b) >= 3
         THEN <<((b[1] % 16) * 4096) + ((b[2] % 64) * 64) + (b[3] % 64)>>
              \o UTFDecode(SubSeq(b, 4, Len(b)))
    ELSE IF b[1] >= 192 /\ Len(b) >= 2
         THEN <<((b[1] % 32) * 64) + (b[2] % 64)>> \o UTFDecode(SubSeq(b, 3, Len(b)))
    ELSE <<b[1]>> \o UTFDecode(Tail(b))

\* JNIEnv GetStringUTFChars: NULL with an OutOfMemoryError pending on failure.
GetStringUTFChars(m, jstr) ==
    LET utf == UTFEncode(jstr.chars)
        a == Alloc(m, "jni", "char[]", Len(utf) + 1,
                   Append([i \in 1..Len(utf) |-> ToChar(utf[i])], 0))
    IN  IF a.p = NULL THEN [m |-> [a.m EXCEPT !.encfail = TRUE], p |-> NULL] ELSE a

\* JNIEnv ReleaseStringUTFChars
ReleaseStringUTFChars(m, p) == Free(m, p)

\* JNIEnv NewStringUTF(env, bytes)
NewStringUTF(m, bytes) ==
    LET a == NewJavaObject(m)
    IN  [m |-> a.m,
         s |-> IF a.ok THEN JStr(UTFDecode([i \in 1..Len(bytes) |-> ToUChar(bytes[i])]))
               ELSE JNull]

(***************************************************************************)
(* The POSIX calls.  The oracle field env.err is the error the call the    *)
(* operation is about fails with (0: it succeeds); a failing call returns  *)
(* -1 and sets errno, a succeeding one leaves errno alone.  Every call is  *)
(* logged with the arguments it was handed and its answer.                 *)
(***************************************************************************)
SysLog(m, name, args, rc, err) ==
    [m EXCEPT !.calls = Append(@, [name |-> name, args |-> args, rc |-> rc,
                                   err |-> IF rc = 0 - 1 THEN err ELSE 0]),
              !.errno = IF rc = 0 - 1 THEN err ELSE @]

Rc(m) == IF m.env.err = 0 THEN 0 ELSE 0 - 1

\* The C string argument of a call.
Path(m, p) == CStr(m.heap[p].data)

\* A call that takes one path and scalar arguments, and only answers.
PathCall(m, name, p, scalars) ==
    LET u == Use(m, p) IN
    [m |-> SysLog(u, name, <<Path(u, p)>> \o scalars, Rc(u), u.env.err), rc |-> Rc(u)]

lchown(m, p, uid, gid) == PathCall(m, "lchown", p, <<uid, gid>>)

\* A seeded slip: the node is looked at with lstat before it is made.
mknod_after_lstat(m, p, mode, dev) ==
    PathCall(SysLog(Use(m, p), "lstat", <<Path(m, p)>>, 0 - 1, ENOENT), "mknod", p,
             <<mode, dev>>)

mknod(m, p, mode, dev) == PathCall(m, "mknod", p, <<mode, dev>>)
chmod(m, p, mode) == PathCall(m, "chmod", p, <<mode>>)

\* A call that takes two paths.
TwoPathCall(m, name, p1, p2) ==
    LET u == Use(Use(m, p1), p2) IN
    [m |-> SysLog(u, name, <<Path(u, p1), Path(u, p2)>>, Rc(u), u.env.err), rc |-> Rc(u)]

symlink(m, target, linkpath) == TwoPathCall(m, "symlink", target, linkpath)
link(m, oldpath, newpath) == TwoPathCall(m, "link", oldpath, newpath)

\* The struct stat of a path: the times of a file of fs are the ones it
\* holds, everything else is up to the environment.
KStatOf(m, path) ==
    IF path \in DOMAIN m.fs
    THEN [m.env.kstat EXCEPT !.st_atime = m.fs[path].st_atime,
                             !.st_mtime = m.fs[path].st_mtime]
    ELSE m.env.kstat

\* lstat: on success the kernel fills the struct stat.
lstat(m, p, buff) ==
    LET u == Use(Use(m, p), buff)
        l == SysLog(u, "lstat", <<Path(u, p)>>, Rc(u), u.env.err)
    IN  [m |-> IF Rc(u) = 0 THEN Store(l, buff, <<KStatOf(u, Path(u, p))>>) ELSE l,
         rc |-> Rc(u)]

\* The kernel sets the access and modification time of a file of fs.
SetTimes(m, path, times) ==
    IF path \in DOMAIN m.fs
    THEN [m EXCEPT !.fs[path].st_atime = times.actime, !.fs[path].st_mtime = times.modtime]
    ELSE m

\* A seeded slip: utime is called again when it was interrupted, and the
\* second call goes through.
utime_retry(m, p, times) ==
    LET u == Use(Use(m, p), times)
        first == SysLog(u, "utime", <<Path(u, p), u.heap[times].data[1]>>, Rc(u), u.env.err)
    IN  IF u.env.err = EINTR
        THEN [m |-> SysLog(first, "utime", <<Path(u, p), u.heap[times].data[1]>>, 0, 0),
              rc |-> 0]
        ELSE [m |-> first, rc |-> Rc(u)]

\* utime: the kernel reads the struct utimbuf and, on success, sets the
\* times of the file.
utime(m, p, times) ==
    LET u == Use(Use(m, p), times)
        l == SysLog(u, "utime", <<Path(u, p), u.heap[times].data[1]>>, Rc(u), u.env.err)
    IN  [m |-> IF Rc(u) = 0 THEN SetTimes(l, Path(u, p), u.heap[times].data[1]) ELSE l,
         rc |-> Rc(u)]

\* The target of a path: a file of fs is a link with the target fs holds, or
\* no link at all (no target); any other path is up to the environment.
LinkTargetOf(m, path) == IF path \in DOMAIN m.fs THEN m.fs[path].target ELSE m.env.target

\* A seeded slip: the whole buffer is offered, one byte more than asked.
readlink_whole_buffer(m, p, buf, bufsiz) ==
    LET u == Use(Use(m, p), buf)
        t == LinkTargetOf(u, Path(u, p))
        n == IF Len(t) < bufsiz + 1 THEN Len(t) ELSE bufsiz + 1
        err == IF u.env.err # 0 THEN u.env.err ELSE IF t = <<>> THEN EINVAL ELSE 0
        rc == IF err = 0 THEN n ELSE 0 - 1
        l == SysLog(u, "readlink", <<Path(u, p), bufsiz + 1>>, rc, err)
    IN  [m |-> IF rc # 0 - 1 THEN Store(l, buf, [i \in 1..n |-> ToChar(t[i])]) ELSE l,
         rc |-> rc]

\* readlink: writes at most bufsiz bytes of the target, no terminator, and
\* answers the number of bytes written.
readlink(m, p, buf, bufsiz) ==
    LET u == Use(Use(m, p), buf)
        t == LinkTargetOf(u, Path(u, p))
        n == IF Len(t) < bufsiz THEN Len(t) ELSE bufsiz
        err == IF u.env.err # 0 THEN u.env.err ELSE IF t = <<>> THEN EINVAL ELSE 0
        rc == IF err = 0 THEN n ELSE 0 - 1
        l == SysLog(u, "readlink", <<Path(u, p), bufsiz>>, rc, err)
    IN  [m |-> IF rc # 0 - 1 THEN Store(l, buf, [i \in 1..n |-> ToChar(t[i])]) ELSE l,
         rc |-> rc]

\* crypt: answers a pointer to static storage holding the hash, or NULL.
crypt(m, password, salt) ==
    LET u == Use(Use(m, password), salt)
        ok == u.env.err = 0
        l == [u EXCEPT !.calls = Append(@, [name |-> "crypt",
                                            args |-> <<Path(u, password), Path(u, salt)>>,
                                            rc |-> IF ok THEN 0 ELSE 0 - 1,
                                            err |-> u.env.err]),
                       !.errno = IF ok THEN @ ELSE u.env.err]
    IN  [m |-> l, crypted |-> IF ok THEN u.env.hash ELSE <<>>, null |-> ~ok]

\* mkstemp: the template must end in XXXXXX; the six X are overwritten with
\* the generated suffix and the created file is answered as a descriptor.
mkstemp(m, filename) ==
    LET u == Use(m, filename)
        d == u.heap[filename].data
        n == strlen(d)
        isTemplate == n >= 6 /\ \A i \in (n - 5)..n : d[i] = 88
        err == IF u.env.err # 0 THEN u.env.err ELSE IF isTemplate THEN 0 ELSE EINVAL
        rc == IF err = 0 THEN u.env.fd ELSE 0 - 1
        l == SysLog(u, "mkstemp", <<CStr(d)>>, rc, err)
    IN  IF err # 0 THEN [m |-> l, fd |-> rc]
        ELSE [m |-> [Store(l, filename,
                           [i \in 1..Len(d) |-> IF i \in (n - 5)..n THEN u.env.suffix ELSE d[i]])
                     EXCEPT !.fds = @ \cup {rc}],
              fd |-> rc]

\* open: answers the lowest free descriptor the kernel picks, or -1.
open(m, pathname, flags) ==
    LET rc == IF m.env.err = 0 THEN m.env.fd ELSE 0 - 1
        l == SysLog(m, "open", <<pathname, flags>>, rc, m.env.err)
    IN  [m |-> IF rc # 0 - 1 THEN [l EXCEPT !.fds = @ \cup {rc}] ELSE l, fd |-> rc]

\* ioctl(fd, RNDADDENTROPY, rand_info): fails with env.ioerr.
ioctl(m, fd, request, argp) ==
    LET u == Use(m, argp)
        rc == IF u.env.ioerr = 0 THEN 0 ELSE 0 - 1
    IN  [m |-> SysLog(u, "ioctl", <<fd, request, u.heap[argp].data[1]>>, rc, u.env.ioerr),
         rc |-> rc]

\* A seeded slip: the answer of close is not looked at (taken to be 0).
close_unchecked(m, fd) ==
    LET rc == IF m.env.cerr = 0 THEN 0 ELSE 0 - 1 IN
    [m |-> [SysLog(m, "close", <<fd>>, rc, m.env.cerr) EXCEPT !.fds = @ \ {fd}], rc |-> 0]

\* close: fails with env.cerr.  Linux releases the descriptor either way.
close(m, fd) ==
    LET rc == IF m.env.cerr = 0 THEN 0 ELSE 0 - 1 IN
    [m |-> [SysLog(m, "close", <<fd>>, rc, m.env.cerr) EXCEPT !.fds = @ \ {fd}], rc |-> rc]

(***************************************************************************)
(* The two statements every wrapper shares.                                *)
(***************************************************************************)
\* newExcCls=(*env)->FindClass(env, getErrorType(errno));
Classify(m, gen) == FindClass(m, getErrorType(gen, m.errno), {m.errno})

\* No class was looked up: newExcCls stays NULL.
Unclassified(m) == [m |-> m, cls |-> NoClass]

\* if(newExcCls!=NULL) (*env)->ThrowNew(env, newExcCls, strerror(errno));
ThrowIfSet(m, newExcCls) ==
    IF newExcCls # NoClass THEN ThrowNew(m, newExcCls, strerror(m.errno), "native") ELSE m

\* What a wrapper hands back to the host.
RetVoid == [kind |-> "void", val |-> <<>>]
RetNull == [kind |-> "null", val |-> <<>>]
RetString(s) == IF s.null THEN RetNull ELSE [kind |-> "string", val |-> s.chars]
RetObject(o) == [kind |-> "object", val |-> o]

(***************************************************************************)
(* The Stat value object (Stat.java of either generation).                 *)
(***************************************************************************)
Stat(exists, device, inode, mode, numberLinks, uid, gid, deviceIdentifier, size, blockSize, blockCount, accessTime, modifyTime, changeTime) ==
    [exists |-> exists, device |-> device, inode |-> inode, mode |-> mode,
     numberLinks |-> numberLinks, uid |-> uid, gid |-> gid,
     deviceIdentifier |-> deviceIdentifier, size |-> size, blockSize |-> blockSize,
     blockCount |-> blockCount, accessTime |-> accessTime, modifyTime |-> modifyTime,
     changeTime |-> changeTime]

\* Stat.NOT_EXISTS, the shared instance of the posix generation.
Stat_NOT_EXISTS == Stat(FALSE, 0, 0, 0, 0, 0, 0, 0, 0, 0, 0, 0, 0, 0)

\* getStat0, the branch that copies the struct stat into the locals.
StatLocals(buff) ==
    Stat(TRUE, buff.st_dev, buff.st_ino, buff.st_mode, buff.st_nlink, buff.st_uid,
         buff.st_gid, buff.st_rdev, buff.st_size, buff.st_blksize, buff.st_blocks,
         buff.st_atime * 1000, buff.st_mtime * 1000, buff.st_ctime * 1000)

\* Locals that were declared and never assigned hold whatever the stack held.
Unassigned(m, exists) ==
    LET g == m.env.garbage IN Stat(exists, g, g, g, g, g, g, g, g, g, g, g, g, g)

\* A seeded slip: only ENOENT is taken as non-existence.
IsNotExists_enoent(err) == err = ENOENT

\* getStat0: else if(errno==ENOENT || errno==ENOTDIR)
IsNotExists(err) == err = ENOENT \/ err = ENOTDIR

\* A seeded slip: the non-existence branch of the unix generation assigns
\* exists only and leaves the other locals unassigned.
UnixNotExistsLocals_unassigned(m) == Unassigned(m, FALSE)

\* UnixFile.c getStat0, the non-existence branch: every local is zeroed.
UnixNotExistsLocals(m) == Stat(FALSE, 0, 0, 0, 0, 0, 0, 0, 0, 0, 0, 0, 0, 0)


\* A seeded slip: the type bit is left out, only the second operand is kept.
BitOr_dropped(a, b) == b

\* Bitwise or of two non-negative integers.
RECURSIVE BitOr(_, _)
BitOr(a, b) ==
    IF a = 0 THEN b
    ELSE IF b = 0 THEN a
    ELSE (IF a % 2 = 1 \/ b % 2 = 1 THEN 1 ELSE 0) + 2 * BitOr(a \div 2, b \div 2)

\* <sys/stat.h> S_IFIFO (PosixFile.IS_FIFO)
S_IFIFO == 4096

\* len<<3 on a 32-bit int as two's complement hardware computes it: the low
\* 32 bits of the product, read as a signed value.
ShiftLeft3Wrapped(len) ==
    LET low == len % 536870912
    IN  IF low >= 268435456 THEN (low - 536870912) * 8 ELSE low * 8

\* len<<3 for an int len >= 0.  The value is 8*len when int can hold it;
\* otherwise the shift is undefined: the wrapped value, or whatever else
\* the build makes of it.
ShiftLeft3(len, garbage) ==
    IF len < 268435456 THEN {len * 8} ELSE {ShiftLeft3Wrapped(len), garbage}

\* addEntropy0: the header of the struct rand_pool_info.
\* rand_info->entropy_count=len<<3; rand_info->buf_size=len;
RandPoolHeaders(len, garbage) ==
    {[entropy_count |-> count, buf_size |-> len, buf |-> <<>>] :
        count \in ShiftLeft3(len, garbage)}

\* JNIEnv GetByteArrayElements: NULL with an OutOfMemoryError pending on failure.
GetByteArrayElements(m, array) == Alloc(m, "jni", "jbyte[]", Len(array), array)

\* A seeded slip: the class is looked up whatever the call answered.
ClassifyIf_always(failed, m, gen) == Classify(m, gen)

\* if(rc!=0) newExcCls=(*env)->FindClass(env, getErrorType(errno));
ClassifyIf(failed, m, gen) == IF failed THEN Classify(m, gen) ELSE Unclassified(m)

(***************************************************************************)
(* The inputs the model draws from.                                        *)
(***************************************************************************)
Gens == {"unix", "posix"}

\* n copies of the character c.
Rep(c, n) == [i \in 1..n |-> c]

\* By how many characters the long strings pass the 512-unit stack buffer.
LongBy == 1

\* Paths: "/a" and "/" e-acute euro y-diaeresis.
PathNames == {JStr(<<47, 97>>), JStr(<<47, 233, 8364, 255>>)}

\* Link names: "/b" and "/" euro.
LinkNames == {JStr(<<47, 98>>), JStr(<<47, 8364>>)}

\* mkstemp templates: "/tXXXXXX", a long one (more than 512 characters), and
\* "/t", which is no template.
Templates ==
    {JStr(<<47, 116>> \o Rep(88, 6)), JStr(Rep(233, 506 + LongBy) \o Rep(88, 6)),
     JStr(<<47, 116>>)}

\* n bytes that differ from place to place, none of them zero.
Varied(n) == [i \in 1..n |-> 1 + (i % 255)]

\* Symbolic link targets as the kernel holds them (bytes 1..255).
LinkTargets == {<<47, 233>>, Rep(200, 512 + LongBy)}

\* struct stat contents the kernel may deliver.
KStats ==
    {[st_dev |-> 2049, st_ino |-> 12, st_mode |-> 33188, st_nlink |-> 1, st_uid |-> 1000,
      st_gid |-> 100, st_rdev |-> 0, st_size |-> 5, st_blksize |-> 4096, st_blocks |-> 8,
      st_atime |-> 1700000, st_mtime |-> 1700001, st_ctime |-> 1700002],
     [st_dev |-> 5, st_ino |-> 3, st_mode |-> 8630, st_nlink |-> 1, st_uid |-> 0,
      st_gid |-> 0, st_rdev |-> 259, st_size |-> 0, st_blksize |-> 4096, st_blocks |-> 0,
      st_atime |-> 1, st_mtime |-> 0, st_ctime |-> 2]}

\* What FindClass may leave in errno: nothing, or the ENOENT of a class-path
\* probe.
Clobbers == {{}, {ENOENT}}

\* Which allocation requests of a call fail: none, any single one, or all.
AllocFailures(n) == {{}} \cup {{k} : k \in 1..n} \cup {1..n}

\* Descriptors the kernel may hand out: the lowest free one.
Fds == {0, 3}
FreeFds == IF 0 \in openFds THEN {3} ELSE Fds

\* Millisecond time stamps handed to utime0: <<atime, mtime>>.
Times == {<<0, 999>>, <<1700000123, 1700000456>>, <<1999, 1000>>, <<0 - 1, 0 - 1001>>}

\* Byte arrays handed to addEntropy0.
RandomData == {<<>>, <<1, 0 - 1>>}

\* The oracle of one call.
Env(fail, clob, err) ==
    [fail |-> fail, clob |-> clob, err |-> err, cerr |-> 0, ioerr |-> 0, fd |-> 3,
     kstat |-> CHOOSE k \in KStats : k.st_ino = 12, target |-> <<>>, hash |-> <<>>,
     suffix |-> 113, garbage |-> 7]

(***************************************************************************)
(* State.                                                                  *)
(***************************************************************************)
NoCall ==
    [op |-> "none", gen |-> "", args |-> <<>>, ret |-> RetVoid, calls |-> <<>>,
     lookups |-> <<>>, thrown |-> <<>>, bufs |-> <<>>, uaf |-> FALSE, oob |-> FALSE,
     encfail |-> FALSE, fail |-> {}, target |-> <<>>, hash |-> <<>>]

\* The harness of the pure functions is off while the operations run.
ProbeOff == [phase |-> "off"]

\* No file is known to be left alone by the other processes: what lstat
\* reports is up to the environment.
NoFiles == <<>>

\* History: the millisecond arguments of the utime0 that last set the times
\* of a file of fs.  The code never reads it.
Noted(m, path, atime, mtime) ==
    IF path \in DOMAIN m.fs THEN [m EXCEPT !.fs[path].ms = <<atime, mtime>>] ELSE m

Init ==
    /\ errno = 0
    /\ heap = <<>>
    /\ openFds = {}
    /\ jstat = Stat(FALSE, 0, 0, 0, 0, 0, 0, 0, 0, 0, 0, 0, 0, 0)
    /\ fs = NoFiles
    /\ call = NoCall
    /\ probe = ProbeOff

Idle == call.op = "none" /\ probe.phase = "off"

IsLeaked(b) == b.live /\ b.kind \in {"malloc", "jni"}

\* The native function returns r to the host.
Returned(op, gen, args, end, ret) ==
    \E m \in {end} :
        /\ errno' = m.errno
        /\ heap' = SelectSeq(m.heap, IsLeaked)
        /\ openFds' = m.fds
        /\ jstat' = m.jstat
        /\ fs' = m.fs
        /\ call' = [op |-> op, gen |-> gen, args |-> args, ret |-> ret,
                    calls |-> m.calls, lookups |-> m.lookups, thrown |-> m.thrown,
                    bufs |-> SubSeq(m.heap, Len(heap) + 1, Len(m.heap)),
                    uaf |-> m.uaf, oob |-> m.oob, encfail |-> m.encfail,
                    fail |-> m.env.fail, target |-> m.env.target,
                    hash |-> m.env.hash]
        /\ UNCHANGED probe

\* The last statement of every wrapper, and its return:
\* if(newExcCls!=NULL) (*env)->ThrowNew(env, newExcCls, strerror(errno));
Finish(op, gen, args, m, newExcCls, ret) ==
    Returned(op, gen, args, ThrowIfSet(m, newExcCls), ret)


(***************************************************************************)
(* One action per native method.  \E x \in {v} binds the local variable x  *)
(* of the C function to the value v of the statement that assigns it.      *)
(***************************************************************************)
\* PosixFile.c / UnixFile.c: chown0
Chown0 ==
    /\ Idle
    /\ \E gen \in Gens, jfilename \in PathNames, fail \in AllocFailures(2),
          clob \in Clobbers, err \in {0, EPERM, ENOENT} :
       \E uid \in {1000}, gid \in {100}, m \in {Machine(Env(fail, clob, err))} :
       \E filename \in {getString8859_1Chars(m, jfilename)} :
          IF filename.p # NULL
          THEN \E s \in {lchown(filename.m, filename.p, uid, gid)} :
               \E c \in {ClassifyIf(s.rc # 0, s.m, gen)} :
               \E r \in {releaseString8859_1Chars(c.m, filename.p)} :
                  Finish("chown0", gen, <<jfilename, uid, gid>>, r, c.cls, RetVoid)
          ELSE Finish("chown0", gen, <<jfilename, uid, gid>>, filename.m, NoClass, RetVoid)

\* PosixFile.c: getStat0
PosixGetStat0 ==
    /\ Idle
    /\ \E jfilename \in PathNames, fail \in AllocFailures(4), clob \in Clobbers,
          err \in {0, ENOENT, ENOTDIR, EACCES, EIO}, k \in KStats :
       \E gen \in {"posix"}, m \in {Machine([Env(fail, clob, err) EXCEPT !.kstat = k])} :
       \E filename \in {getString8859_1Chars(m, jfilename)} :
          IF filename.p # NULL
          THEN \E buff \in {malloc(filename.m, "struct stat", 1)} :
               IF buff.p # NULL
               THEN \E s \in {lstat(buff.m, filename.p, buff.p)} :
                    \E found \in {s.rc = 0} :
                    \E absent \in {~found /\ IsNotExists(s.m.errno)} :
                    \E rd \in {IF found THEN Use(s.m, buff.p) ELSE s.m} :
                    \E locals \in {IF found THEN StatLocals(rd.heap[buff.p].data[1])
                                   ELSE Unassigned(rd, IF absent THEN FALSE
                                                       ELSE rd.env.garbage # 0)} :
                    \E c \in {ClassifyIf(~found /\ ~absent, rd, gen)} :
                    \E f \in {Free(c.m, buff.p)} :
                       IF c.cls = NoClass
                       THEN \E statClass \in {FindClass(f, "com/aoapps/io/posix/Stat", {})} :
                            IF locals.exists = FALSE
                            THEN Finish("getStat0", gen, <<jfilename>>,
                                        releaseString8859_1Chars(statClass.m, filename.p),
                                        c.cls, RetObject(Stat_NOT_EXISTS))
                            ELSE \E stat \in {NewJavaObject(statClass.m)} :
                                 Finish("getStat0", gen, <<jfilename>>,
                                        releaseString8859_1Chars(stat.m, filename.p), c.cls,
                                        IF stat.ok THEN RetObject(locals) ELSE RetNull)
                       ELSE Finish("getStat0", gen, <<jfilename>>,
                                   releaseString8859_1Chars(f, filename.p), c.cls, RetNull)
               ELSE \E c \in {Classify(buff.m, gen)} :
                    Finish("getStat0", gen, <<jfilename>>,
                           releaseString8859_1Chars(c.m, filename.p), c.cls, RetNull)
          ELSE Finish("getStat0", gen, <<jfilename>>, filename.m, NoClass, RetNull)

\* UnixFile.c: getStat0.  The result is stored into the caller's Stat by
\* Stat.init, which assigns each field from its argument.
UnixGetStat0 ==
    /\ Idle
    /\ \E jfilename \in PathNames, fail \in AllocFailures(3), clob \in Clobbers,
          err \in {0, ENOENT, ENOTDIR, EACCES, EIO}, k \in KStats :
       \E gen \in {"unix"}, m \in {Machine([Env(fail, clob, err) EXCEPT !.kstat = k])} :
       \E filename \in {getString8859_1Chars(m, jfilename)} :
          IF filename.p # NULL
          THEN \E buff \in {malloc(filename.m, "struct stat", 1)} :
               IF buff.p # NULL
               THEN \E s \in {lstat(buff.m, filename.p, buff.p)} :
                    \E found \in {s.rc = 0} :
                    \E absent \in {~found /\ IsNotExists(s.m.errno)} :
                    \E rd \in {IF found THEN Use(s.m, buff.p) ELSE s.m} :
                    \E locals \in {IF found THEN StatLocals(rd.heap[buff.p].data[1])
                                   ELSE IF absent THEN UnixNotExistsLocals(rd)
                                   ELSE Unassigned(rd, rd.env.garbage # 0)} :
                    \E c \in {ClassifyIf(~found /\ ~absent, rd, gen)} :
                    \E f \in {Free(c.m, buff.p)} :
                       IF c.cls = NoClass
                       THEN \E statClass \in {FindClass(f, "com/aoindustries/io/unix/Stat",
                                                        {})} :
                            \E init \in {[statClass.m EXCEPT !.jstat = locals]} :
                            Finish("getStat0", gen, <<jfilename>>,
                                   releaseString8859_1Chars(init, filename.p), c.cls, RetVoid)
                       ELSE Finish("getStat0", gen, <<jfilename>>,
                                   releaseString8859_1Chars(f, filename.p), c.cls, RetVoid)
               ELSE \E c \in {Classify(buff.m, gen)} :
                    Finish("getStat0", gen, <<jfilename>>,
                           releaseString8859_1Chars(c.m, filename.p), c.cls, RetVoid)
          ELSE Finish("getStat0", gen, <<jfilename>>, filename.m, NoClass, RetVoid)

\* PosixFile.c / UnixFile.c: crypt0
Crypt0 ==
    /\ Idle
    /\ \E gen \in Gens, jpassword \in {JStr(<<112, 119>>), JStr(<<112, 233, 8364>>)},
          fail \in AllocFailures(3), clob \in Clobbers, err \in {0, EINVAL, ENOSYS} :
       \E jsalt \in {JStr(<<97, 98>>)},
          m \in {Machine([Env(fail, clob, err) EXCEPT !.hash = <<97, 98, 46, 47>>])} :
       \E password \in {GetStringUTFChars(m, jpassword)} :
          IF password.p # NULL
          THEN \E salt \in {GetStringUTFChars(password.m, jsalt)} :
               IF salt.p # NULL
               THEN \E crypted \in {crypt(salt.m, password.p, salt.p)} :
                    \E jcrypted \in {IF ~crypted.null
                                     THEN NewStringUTF(crypted.m, crypted.crypted)
                                     ELSE [m |-> crypted.m, s |-> JNull]} :
                    \E c \in {ClassifyIf(crypted.null, jcrypted.m, gen)} :
                    \E r1 \in {ReleaseStringUTFChars(c.m, salt.p)} :
                    \E r2 \in {ReleaseStringUTFChars(r1, password.p)} :
                       Finish("crypt0", gen, <<jpassword, jsalt>>, r2, c.cls,
                              RetString(jcrypted.s))
               ELSE Finish("crypt0", gen, <<jpassword, jsalt>>,
                           ReleaseStringUTFChars(salt.m, password.p), NoClass, RetNull)
          ELSE Finish("crypt0", gen, <<jpassword, jsalt>>, password.m, NoClass, RetNull)

\* PosixFile.c / UnixFile.c: mktemp0
Mktemp0 ==
    /\ Idle
    /\ \E gen \in Gens, jtemplate \in Templates, fail \in AllocFailures(5),
          clob \in Clobbers, err \in {0, EEXIST}, cerr \in {0, EINTR, EIO}, fd0 \in FreeFds :
       \E m \in {Machine([Env(fail, clob, err) EXCEPT !.cerr = cerr, !.fd = fd0])} :
       \E template \in {getString8859_1Chars(m, jtemplate)} :
          IF template.p # NULL
          THEN \E t \in {Use(template.m, template.p)} :
               \E len \in {strlen(t.heap[template.p].data) + 1} :
               \E filename \in {malloc(t, "char[]", len)} :
               IF filename.p # NULL
               THEN \E cp \in {Store(Use(filename.m, template.p), filename.p,
                                     SubSeq(filename.m.heap[template.p].data, 1, len))} :
                    \E mk \in {mkstemp(cp, filename.p)} :
                    \E cl \in {IF mk.fd # 0 - 1 THEN close(mk.m, mk.fd)
                               ELSE [m |-> mk.m, rc |-> 0]} :
                    \E ok \in {mk.fd # 0 - 1 /\ cl.rc = 0} :
                    \E jfilename \in {IF ok THEN newString8859_1(cl.m, filename.p)
                                      ELSE [m |-> cl.m, s |-> JNull]} :
                    \E c \in {ClassifyIf(~ok, jfilename.m, gen)} :
                    \E f \in {Free(c.m, filename.p)} :
                    \E r \in {releaseString8859_1Chars(f, template.p)} :
                       Finish("mktemp0", gen, <<jtemplate>>, r, c.cls, RetString(jfilename.s))
               ELSE \E c \in {Classify(filename.m, gen)} :
                    Finish("mktemp0", gen, <<jtemplate>>,
                           releaseString8859_1Chars(c.m, template.p), c.cls, RetNull)
          ELSE Finish("mktemp0", gen, <<jtemplate>>, template.m, NoClass, RetNull)

\* PosixFile.c / UnixFile.c: mknod0
Mknod0 ==
    /\ Idle
    /\ \E gen \in Gens, jfilename \in PathNames, fail \in AllocFailures(2),
          clob \in Clobbers, err \in {0, EEXIST, EPERM}, mode \in {8630, 4516} :
       \E device \in {259}, m \in {Machine(Env(fail, clob, err))} :
       \E filename \in {getString8859_1Chars(m, jfilename)} :
          IF filename.p # NULL
          THEN \E s \in {mknod(filename.m, filename.p, mode, device)} :
               \E c \in {ClassifyIf(s.rc # 0, s.m, gen)} :
               \E r \in {releaseString8859_1Chars(c.m, filename.p)} :
                  Finish("mknod0", gen, <<jfilename, mode, device>>, r, c.cls, RetVoid)
          ELSE Finish("mknod0", gen, <<jfilename, mode, device>>, filename.m, NoClass,
                      RetVoid)

\* PosixFile.c / UnixFile.c: mkfifo0
Mkfifo0 ==
    /\ Idle
    /\ \E gen \in Gens, jfilename \in PathNames, fail \in AllocFailures(2),
          clob \in Clobbers, err \in {0, EEXIST, EACCES}, mode \in {420, 4095} :
       \E m \in {Machine(Env(fail, clob, err))} :
       \E filename \in {getString8859_1Chars(m, jfilename)} :
          IF filename.p # NULL
          THEN \E s \in {mknod(filename.m, filename.p, BitOr(S_IFIFO, mode), 0)} :
               \E c \in {ClassifyIf(s.rc # 0, s.m, gen)} :
               \E r \in {releaseString8859_1Chars(c.m, filename.p)} :
                  Finish("mkfifo0", gen, <<jfilename, mode>>, r, c.cls, RetVoid)
          ELSE Finish("mkfifo0", gen, <<jfilename, mode>>, filename.m, NoClass, RetVoid)

\* PosixFile.c / UnixFile.c: setMode0
SetMode0 ==
    /\ Idle
    /\ \E gen \in Gens, jfilename \in PathNames, fail \in AllocFailures(2),
          clob \in Clobbers, err \in {0, EPERM, ENOENT}, mode \in {420, 2541} :
       \E m \in {Machine(Env(fail, clob, err))} :
       \E filename \in {getString8859_1Chars(m, jfilename)} :
          IF filename.p # NULL
          THEN \E s \in {chmod(filename.m, filename.p, mode)} :
               \E c \in {ClassifyIf(s.rc # 0, s.m, gen)} :
               \E r \in {releaseString8859_1Chars(c.m, filename.p)} :
                  Finish("setMode0", gen, <<jfilename, mode>>, r, c.cls, RetVoid)
          ELSE Finish("setMode0", gen, <<jfilename, mode>>, filename.m, NoClass, RetVoid)

\* PosixFile.c / UnixFile.c: symLink0
SymLink0 ==
    /\ Idle
    /\ \E gen \in Gens, jfilename \in PathNames, jdestination \in LinkNames,
          fail \in AllocFailures(4), clob \in Clobbers, err \in {0, EEXIST, ENAMETOOLONG} :
       \E m \in {Machine(Env(fail, clob, err))} :
       \E filename \in {getString8859_1Chars(m, jfilename)} :
          IF filename.p # NULL
          THEN \E destination \in {getString8859_1Chars(filename.m, jdestination)} :
               IF destination.p # NULL
               THEN \E s \in {symlink(destination.m, destination.p, filename.p)} :
                    \E c \in {ClassifyIf(s.rc # 0, s.m, gen)} :
                    \E r1 \in {releaseString8859_1Chars(c.m, destination.p)} :
                    \E r2 \in {releaseString8859_1Chars(r1, filename.p)} :
                       Finish("symLink0", gen, <<jfilename, jdestination>>, r2, c.cls, RetVoid)
               ELSE Finish("symLink0", gen, <<jfilename, jdestination>>,
                           releaseString8859_1Chars(destination.m, filename.p), NoClass,
                           RetVoid)
          ELSE Finish("symLink0", gen, <<jfilename, jdestination>>, filename.m, NoClass,
                      RetVoid)

\* PosixFile.c / UnixFile.c: link0
Link0 ==
    /\ Idle
    /\ \E gen \in Gens, jfilename \in PathNames, jdestination \in LinkNames,
          fail \in AllocFailures(4), clob \in Clobbers, err \in {0, EXDEV, EMLINK} :
       \E m \in {Machine(Env(fail, clob, err))} :
       \E filename \in {getString8859_1Chars(m, jfilename)} :
          IF filename.p # NULL
          THEN \E destination \in {getString8859_1Chars(filename.m, jdestination)} :
               IF destination.p # NULL
               THEN \E s \in {link(destination.m, destination.p, filename.p)} :
                    \E c \in {ClassifyIf(s.rc # 0, s.m, gen)} :
                    \E r1 \in {releaseString8859_1Chars(c.m, destination.p)} :
                    \E r2 \in {releaseString8859_1Chars(r1, filename.p)} :
                       Finish("link0", gen, <<jfilename, jdestination>>, r2, c.cls, RetVoid)
               ELSE Finish("link0", gen, <<jfilename, jdestination>>,
                           releaseString8859_1Chars(destination.m, filename.p), NoClass,
                           RetVoid)
          ELSE Finish("link0", gen, <<jfilename, jdestination>>, filename.m, NoClass, RetVoid)

\* PosixFile.c / UnixFile.c: readLink0
ReadLink0 ==
    /\ Idle
    /\ \E gen \in Gens, jfilename \in PathNames, fail \in AllocFailures(5),
          clob \in Clobbers, err \in {0, EINVAL, EINTR}, target \in LinkTargets :
       \E m \in {Machine([Env(fail, clob, err) EXCEPT !.target = target])} :
       \E filename \in {getString8859_1Chars(m, jfilename)} :
          IF filename.p # NULL
          THEN \E destination \in {malloc(filename.m, "char[]", 4097)} :
               IF destination.p # NULL
               THEN \E rl \in {readlink(destination.m, filename.p, destination.p, 4096)} :
                    \E charCount \in {rl.rc} :
                    \E z \in {IF charCount # 0 - 1
                              THEN Store(rl.m, destination.p,
                                         Append(SubSeq(rl.m.heap[destination.p].data,
                                                       1, charCount), 0))
                              ELSE rl.m} :
                    \E jdestination \in {IF charCount # 0 - 1
                                         THEN newString8859_1(z, destination.p)
                                         ELSE [m |-> z, s |-> JNull]} :
                    \E c \in {ClassifyIf(charCount = 0 - 1, jdestination.m, gen)} :
                    \E f \in {Free(c.m, destination.p)} :
                    \E r \in {releaseString8859_1Chars(f, filename.p)} :
                       Finish("readLink0", gen, <<jfilename>>, r, c.cls,
                              RetString(jdestination.s))
               ELSE \E c \in {Classify(destination.m, gen)} :
                    Finish("readLink0", gen, <<jfilename>>,
                           releaseString8859_1Chars(c.m, filename.p), c.cls, RetNull)
          ELSE Finish("readLink0", gen, <<jfilename>>, filename.m, NoClass, RetNull)

\* PosixFile.c / UnixFile.c: utime0
Utime0 ==
    /\ Idle
    /\ \E gen \in Gens, jfilename \in PathNames, fail \in AllocFailures(3),
          clob \in Clobbers, err \in {0, EACCES, EINTR}, ms \in Times :
       \E atime \in {ms[1]}, mtime \in {ms[2]}, m \in {Machine(Env(fail, clob, err))} :
       \E times \in {malloc(m, "struct utimbuf", 1)} :
          IF times.p # NULL
          THEN \E filename \in {getString8859_1Chars(times.m, jfilename)} :
               IF filename.p # NULL
               THEN \E w \in {Store(filename.m, times.p,
                                    <<[actime |-> CDiv(atime, 1000),
                                       modtime |-> CDiv(mtime, 1000)]>>)} :
                    \E s \in {utime(w, filename.p, times.p)} :
                    \E n \in {IF s.rc = 0 THEN Noted(s.m, Path(w, filename.p), atime, mtime)
                              ELSE s.m} :
                    \E c \in {ClassifyIf(s.rc # 0, n, gen)} :
                    \E r \in {releaseString8859_1Chars(c.m, filename.p)} :
                       Finish("utime0", gen, <<jfilename, atime, mtime>>, Free(r, times.p),
                              c.cls, RetVoid)
               ELSE Finish("utime0", gen, <<jfilename, atime, mtime>>,
                           Free(filename.m, times.p), NoClass, RetVoid)
          ELSE \E c \in {Classify(times.m, gen)} :
               Finish("utime0", gen, <<jfilename, atime, mtime>>, c.m, c.cls, RetVoid)

\* DevRandom.c: addEntropy0
AddEntropy0 ==
    /\ Idle
    /\ \E randomData \in RandomData, fail \in AllocFailures(2), clob \in Clobbers,
          err \in {0, EACCES}, ioerr \in {0, EPERM}, cerr \in {0, EIO}, fd0 \in FreeFds :
       \E gen \in {"posix"}, len \in {Len(randomData)},
          m \in {Machine([Env(fail, clob, err) EXCEPT
                             !.ioerr = ioerr, !.cerr = cerr, !.fd = fd0])} :
       \E rand_info \in {malloc(m, "struct rand_pool_info", 1)} :
          IF rand_info.p # NULL
          THEN \E header \in RandPoolHeaders(len, m.env.garbage) :
               \E hdr \in {Store(rand_info.m, rand_info.p, <<header>>)} :
               \E body \in {GetByteArrayElements(hdr, randomData)} :
               IF body.p # NULL
               THEN \E src \in {Use(body.m, body.p)} :
                    \E cp \in {Store(src, rand_info.p,
                                     <<[src.heap[rand_info.p].data[1] EXCEPT
                                          !.buf = [c \in 1..len |-> src.heap[body.p].data[c]]]>>)} :
                    \E rel \in {Free(cp, body.p)} :
                    \E fdout \in {open(rel, "/dev/random", "O_WRONLY")} :
                    \E io \in {IF fdout.fd > 0
                               THEN ioctl(fdout.m, fdout.fd, "RNDADDENTROPY", rand_info.p)
                               ELSE [m |-> fdout.m, rc |-> 0]} :
                    \E c \in {ClassifyIf(~(fdout.fd > 0 /\ io.rc = 0), io.m, gen)} :
                    \E cl \in {IF fdout.fd > 0 THEN close(c.m, fdout.fd).m ELSE c.m} :
                       Finish("addEntropy0", gen, <<randomData>>, Free(cl, rand_info.p),
                              c.cls, RetVoid)
               ELSE \E c \in {Classify(body.m, gen)} :
                    Finish("addEntropy0", gen, <<randomData>>, Free(c.m, rand_info.p),
                           c.cls, RetVoid)
          ELSE \E c \in {Classify(rand_info.m, gen)} :
               Finish("addEntropy0", gen, <<randomData>>, c.m, c.cls, RetVoid)

\* The host takes the result (or the pending exception) and goes on.
Resume ==
    /\ call.op # "none"
    /\ call' = NoCall
    /\ UNCHANGED <<errno, heap, openFds, jstat, fs, probe>>

Next ==
    \/ Chown0
    \/ PosixGetStat0
    \/ UnixGetStat0
    \/ Crypt0
    \/ Mktemp0
    \/ Mknod0
    \/ Mkfifo0
    \/ SetMode0
    \/ SymLink0
    \/ Link0
    \/ ReadLink0
    \/ Utime0
    \/ AddEntropy0
    \/ Resume

Spec == Init /\ [][Next]_vars

(***************************************************************************)
(* The classifier on its own: getErrorType of either generation applied to *)
(* every error code of a range around the codes <errno.h> defines.         *)
(***************************************************************************)
\* The largest error code tried (Linux defines 1..133); -MaxErrno is the
\* smallest.
MaxErrno == 140

ErrCodes == (0 - MaxErrno)..MaxErrno

ClassifierInit ==
    /\ errno = 0
    /\ heap = <<>>
    /\ openFds = {}
    /\ jstat = Stat(FALSE, 0, 0, 0, 0, 0, 0, 0, 0, 0, 0, 0, 0, 0)
    /\ fs = NoFiles
    /\ call = NoCall
    /\ probe \in {[phase |-> "classify", err |-> e, unix |-> NoClass, posix |-> NoClass] :
                     e \in ErrCodes}

\* com/aoindustries/io/unix/aocode_shared.c: getErrorType(err)
GetErrorTypeUnix ==
    /\ probe.phase = "classify"
    /\ probe.unix = NoClass
    /\ probe' = [probe EXCEPT !.unix = getErrorType("unix", probe.err)]
    /\ UNCHANGED <<errno, heap, openFds, jstat, fs, call>>

\* com/aoapps/io/posix/aocode_shared.c: getErrorType(err)
GetErrorTypePosix ==
    /\ probe.phase = "classify"
    /\ probe.posix = NoClass
    /\ probe' = [probe EXCEPT !.posix = getErrorType("posix", probe.err)]
    /\ UNCHANGED <<errno, heap, openFds, jstat, fs, call>>

ClassifierNext ==
    \/ GetErrorTypeUnix
    \/ GetErrorTypePosix

ClassifierSpec == ClassifierInit /\ [][ClassifierNext]_vars

(***************************************************************************)
(* The marshaling pair on its own: a host string is encoded by             *)
(* getString8859_1Chars, the buffer is decoded by newString8859_1 and then *)
(* released, as mktemp0 and readLink0 do with the paths they hand back.    *)
(***************************************************************************)
\* The longest of the short strings tried.
CodecMaxLen == 2

\* NUL, SOH, "A", 0x80, y-diaeresis, euro.
CodecAlphabet == {0, 1, 65, 128, 255, 8364}

\* All strings over the alphabet up to CodecMaxLen, and strings around the
\* 512-unit stack buffer of newString8859_1.
CodecStrings ==
    UNION {[1..n -> CodecAlphabet] : n \in 0..CodecMaxLen}
    \cup {Rep(c, n) : c \in {65, 255}, n \in {511, 512, 512 + LongBy}}
    \cup {Rep(233, 512) \o <<255>>}

CodecInit ==
    /\ errno = 0
    /\ heap = <<>>
    /\ openFds = {}
    /\ jstat = Stat(FALSE, 0, 0, 0, 0, 0, 0, 0, 0, 0, 0, 0, 0, 0)
    /\ fs = NoFiles
    /\ call = NoCall
    /\ probe \in {[phase |-> "picked", s |-> JStr(x), enc |-> <<>>, out |-> JNull,
                  fail |-> {}, thrown |-> <<>>, bufs |-> <<>>] : x \in CodecStrings}

\* jni_util.c: getString8859_1Chars applied to probe.s
CodecEncode ==
    /\ probe.phase = "picked"
    /\ \E fail \in AllocFailures(2) :
       \E m \in {Machine(Env(fail, {}, 0))} :
       \E e \in {getString8859_1Chars(m, probe.s)} :
          /\ probe' = [probe EXCEPT !.phase = IF e.p = NULL THEN "failed" ELSE "encoded",
                                    !.enc = IF e.p = NULL THEN <<>> ELSE e.m.heap[e.p].data,
                                    !.fail = fail,
                                    !.thrown = e.m.thrown,
                                    !.bufs = e.m.heap]
          /\ heap' = SelectSeq(e.m.heap, IsLeaked)
          /\ errno' = e.m.errno
          /\ UNCHANGED <<openFds, jstat, fs, call>>

\* jni_util.c: newString8859_1 applied to the encoded buffer, then
\* releaseString8859_1Chars.
CodecDecode ==
    /\ probe.phase = "encoded"
    /\ \E fail \in AllocFailures(2) :
       \E m \in {Machine(Env(fail, {}, 0))} :
       \E d \in {newString8859_1(m, 1)} :
       \E r \in {releaseString8859_1Chars(d.m, 1)} :
          /\ probe' = [probe EXCEPT !.phase = "decoded", !.out = d.s, !.fail = fail,
                                    !.thrown = r.thrown, !.bufs = r.heap]
          /\ heap' = SelectSeq(r.heap, IsLeaked)
          /\ errno' = r.errno
          /\ UNCHANGED <<openFds, jstat, fs, call>>

CodecNext ==
    \/ CodecEncode
    \/ CodecDecode

CodecSpec == CodecInit /\ [][CodecNext]_vars

(***************************************************************************)
(* Properties.                                                             *)
(***************************************************************************)
\* The error categories of the specification, by the exception class that
\* carries each.
Category(cls) ==
    CASE cls = SECURITY_EXCEPTION -> "SecurityViolation"
      [] cls = IO_EXCEPTION -> "IOFailure"
      [] cls = RUNTIME_EXCEPTION -> "GenericRuntimeFailure"
      [] cls = INTERRUPTED_IO_EXCEPTION -> "InterruptedIO"
      [] cls = ILLEGAL_ARGUMENT_EXCEPTION -> "InvalidArgument"
      [] cls = FILE_NOT_FOUND_EXCEPTION -> "PathNotFound"
      [] cls = OUT_OF_MEMORY_EXCEPTION -> "OutOfMemory"
      [] cls = NO_SUCH_METHOD_EXCEPTION -> "MethodUnsupported"
      [] OTHER -> "none"

\* The fixed table of the classifier contract.
FixedTable(err) ==
    IF err \in {EACCES, EPERM} THEN "SecurityViolation"
    ELSE IF err \in {EBADF, EIO, EMLINK, ENOSPC, ENOTDIR, EROFS, EXDEV, EEXIST} THEN "IOFailure"
    ELSE IF err = EFAULT THEN "GenericRuntimeFailure"
    ELSE IF err = EINTR THEN "InterruptedIO"
    ELSE IF err \in {EINVAL, ENAMETOOLONG} THEN "InvalidArgument"
    ELSE IF err \in {ELOOP, ENOENT} THEN "PathNotFound"
    ELSE IF err = ENOMEM THEN "OutOfMemory"
    ELSE IF err = ENOSYS THEN "MethodUnsupported"
    ELSE "GenericRuntimeFailure"

\* C1: getErrorType answers, for every error code (listed, unlisted, zero
\* or negative), the class of the category the fixed table gives.
C1_ClassifierTable ==
    /\ probe.unix # NoClass => Category(probe.unix) = FixedTable(probe.err)
    /\ probe.posix # NoClass => Category(probe.posix) = FixedTable(probe.err)

\* EACCES was classified by the posix copy as java/lang/SecurityException.
C1_Witness ==
    /\ probe.err = EACCES
    /\ probe.posix = "java/lang/SecurityException"

\* The native call that has returned is a getStat0 whose lstat failed with
\* ENOENT or ENOTDIR.
LstatAbsent ==
    /\ call.op = "getStat0"
    /\ \E i \in 1..Len(call.calls) :
          call.calls[i].name = "lstat" /\ call.calls[i].err \in {ENOENT, ENOTDIR}

\* C2: when lstat fails with ENOENT or ENOTDIR, getStat0 of either
\* generation raises nothing and delivers a result with exists = false.
C2_StatAbsentIsNoFailure ==
    LstatAbsent =>
        /\ call.thrown = <<>>
        /\ call.gen = "posix" => call.ret.kind = "object" /\ call.ret.val.exists = FALSE
        /\ call.gen = "unix" => jstat.exists = FALSE

\* The unix getStat0 returned after lstat failed with ENOTDIR.
C2_Witness ==
    /\ LstatAbsent
    /\ call.gen = "unix"
    /\ call.calls[1].err = ENOTDIR
    /\ call.thrown = <<>>

AllZero(st) ==
    /\ st.device = 0 /\ st.inode = 0 /\ st.mode = 0 /\ st.numberLinks = 0
    /\ st.uid = 0 /\ st.gid = 0 /\ st.deviceIdentifier = 0 /\ st.size = 0
    /\ st.blockSize = 0 /\ st.blockCount = 0
    /\ st.accessTime = 0 /\ st.modifyTime = 0 /\ st.changeTime = 0

\* C3: a stat result with exists = false has every other field zero, in the
\* Stat the unix getStat0 fills and in the Stat the posix getStat0 returns,
\* whatever ran before.
C3_AbsentStatIsZero ==
    /\ jstat.exists = FALSE => AllZero(jstat)
    /\ (call.op = "getStat0" /\ call.ret.kind = "object" /\ call.ret.val.exists = FALSE)
          => AllZero(call.ret.val)

\* The unix getStat0 reported non-existence: the Stat it filled has exists
\* false and every other field zero.
C3_Witness ==
    /\ LstatAbsent
    /\ call.gen = "unix"
    /\ jstat.exists = FALSE
    /\ AllZero(jstat)

\* The calls of the returned operation that failed and whose answer the
\* code tests (addEntropy0 discards the answer of its cleanup close; for
\* getStat0, ENOENT and ENOTDIR are not failures).
FailedCalls ==
    {i \in 1..Len(call.calls) :
        /\ call.calls[i].err # 0
        /\ ~(call.op = "addEntropy0" /\ call.calls[i].name = "close")
        /\ ~(call.calls[i].name = "lstat" /\ call.calls[i].err \in {ENOENT, ENOTDIR})}

\* C4: the message of a classified failure is the description of the error
\* code the failing call set.
C4_MessageOfFailingCall ==
    \A i \in FailedCalls :
        \A k \in 1..Len(call.thrown) :
            call.thrown[k].by = "native" => call.thrown[k].msg = strerror(call.calls[i].err)

\* C5: when an operation has returned, every buffer it allocated was
\* released exactly once, none is still allocated, none was used after its
\* release.
C5_BuffersReleasedOnce ==
    /\ heap = <<>>
    /\ ~call.uaf
    /\ \A i \in 1..Len(call.bufs) :
          call.bufs[i].kind \in {"malloc", "jni"} =>
              call.bufs[i].frees = 1 /\ ~call.bufs[i].live

\* mktemp0 returned a long path: the template, its encoding, the name copy
\* and the heap buffer of the decoder were all allocated and released.
C5_Witness ==
    /\ call.op = "mktemp0"
    /\ call.ret.kind = "string"
    /\ \E i \in 1..Len(call.bufs) :
          /\ call.bufs[i].kind = "malloc"
          /\ call.bufs[i].type = "jchar[]"
          /\ call.bufs[i].frees = 1

\* C6: when the encoding of a string argument fails, the operation ends
\* with OutOfMemoryError and nothing else raised, and made no call.
C6_EncodeFailureIsOutOfMemory ==
    call.encfail =>
        /\ call.calls = <<>>
        /\ call.thrown # <<>>
        /\ \A k \in 1..Len(call.thrown) : Category(call.thrown[k].cls) = "OutOfMemory"

\* link0: the first path was encoded, the malloc of the second failed.
C6_Witness ==
    /\ call.op = "link0"
    /\ call.fail = {4}
    /\ call.encfail
    /\ call.calls = <<>>

\* C7: a string of codepoints 1..255, of any length, is handed back
\* unchanged by decode(encode(s)).
C7_RoundTrip ==
    (/\ probe.phase = "decoded"
     /\ \A i \in 1..Len(probe.s.chars) : probe.s.chars[i] \in 1..255)
        => /\ probe.fail = {} => ~probe.out.null
           /\ ~probe.out.null => probe.out.chars = probe.s.chars

\* A string of more than 512 y-diaeresis came back unchanged through the
\* heap buffer of the decoder.
C7_Witness ==
    /\ probe.phase = "decoded"
    /\ Len(probe.s.chars) > 512
    /\ probe.s.chars[1] = 255
    /\ ~probe.out.null
    /\ probe.out.chars = probe.s.chars

\* The byte the encoding contract gives a codepoint.
EncodedByte(c) == IF c <= 255 THEN c ELSE 63

\* Buffer b is len+1 bytes: the encoded codepoints and one zero byte.
IsEncodingOf(b, chars) ==
    /\ b.kind = "malloc"
    /\ b.type = "char[]"
    /\ b.size = Len(chars) + 1
    /\ Len(b.data) = Len(chars) + 1
    /\ \A i \in 1..Len(chars) : ToUChar(b.data[i]) = EncodedByte(chars[i])
    /\ b.data[Len(chars) + 1] = 0

\* How many leading arguments of an operation are paths encoded with
\* getString8859_1Chars.
PathArgs(op) ==
    IF op \in {"symLink0", "link0"} THEN 2
    ELSE IF op \in {"chown0", "getStat0", "mktemp0", "mknod0", "mkfifo0", "setMode0",
                    "readLink0", "utime0"} THEN 1
    ELSE 0

\* C8: with no allocation failing, every path argument is encoded into a
\* buffer of its length plus one (codepoints up to 255 kept, '?' above,
\* then a zero byte), the call is made, and nothing is raised unless the
\* call fails.
C8_EncodeKeepsOrReplaces ==
    (PathArgs(call.op) > 0 /\ call.fail = {}) =>
        /\ \A a \in 1..PathArgs(call.op) :
              \E i \in 1..Len(call.bufs) : IsEncodingOf(call.bufs[i], call.args[a].chars)
        /\ call.calls # <<>>
        /\ (\A i \in 1..Len(call.calls) : call.calls[i].err = 0) => call.thrown = <<>>

\* chown0 of "/" e-acute euro y-diaeresis went through: lchown was handed
\* "/" 0xE9 "?" 0xFF.
C8_Witness ==
    /\ call.op = "chown0"
    /\ call.args[1].chars = <<47, 233, 8364, 255>>
    /\ call.calls # <<>>
    /\ ToUChar(call.calls[1].args[1][3]) = 63
    /\ call.thrown = <<>>

\* C9: the two copies of getErrorType answer the same class for the same
\* error code.
C9_CopiesAgree ==
    (probe.unix # NoClass /\ probe.posix # NoClass) => probe.unix = probe.posix

\* Both copies classified EXDEV as java/io/IOException.
C9_Witness ==
    /\ probe.err = EXDEV
    /\ probe.unix = "java/io/IOException"
    /\ probe.posix = "java/io/IOException"

CallNames == [i \in 1..Len(call.calls) |-> call.calls[i].name]

\* The POSIX call each single-call operation is a wrapper of.
PrimaryCall(op) ==
    CASE op = "chown0" -> "lchown"
      [] op = "getStat0" -> "lstat"
      [] op = "crypt0" -> "crypt"
      [] op = "mknod0" -> "mknod"
      [] op = "mkfifo0" -> "mknod"
      [] op = "setMode0" -> "chmod"
      [] op = "symLink0" -> "symlink"
      [] op = "link0" -> "link"
      [] op = "readLink0" -> "readlink"
      [] op = "utime0" -> "utime"
      [] OTHER -> "none"

\* C11 as stated: an operation none of whose allocations failed made
\* exactly one call.
C11_ExactlyOneCall ==
    (call.op # "none" /\ call.fail = {}) => Len(call.calls) = 1

\* C11 as amended: with no allocation failing, the ten single-call
\* operations make exactly their one call; mktemp0 makes mkstemp and, when
\* it answered a descriptor, close; addEntropy0 makes open and, when it
\* answered a descriptor greater than 0, ioctl and close.
C11_CallsPerOperation ==
    (call.op # "none" /\ call.fail = {}) =>
        CallNames =
            IF call.op = "mktemp0"
            THEN (IF call.calls[1].rc = 0 - 1 THEN <<"mkstemp">> ELSE <<"mkstemp", "close">>)
            ELSE IF call.op = "addEntropy0"
            THEN (IF call.calls[1].rc > 0 THEN <<"open", "ioctl", "close">> ELSE <<"open">>)
            ELSE <<PrimaryCall(call.op)>>

\* mktemp0 made two calls: mkstemp answered a descriptor, which it closed.
C11_Witness ==
    /\ call.op = "mktemp0"
    /\ call.fail = {}
    /\ CallNames = <<"mkstemp", "close">>
    /\ call.calls[2].args = <<call.calls[1].rc>>

(***************************************************************************)
(* Set-times followed by stat, on a file no other process touches.         *)
(***************************************************************************)
\* "/a" is such a file; its times before the first call are the kernel's.
TimesInit ==
    /\ errno = 0
    /\ heap = <<>>
    /\ openFds = {}
    /\ jstat = Stat(FALSE, 0, 0, 0, 0, 0, 0, 0, 0, 0, 0, 0, 0, 0)
    /\ fs = [path \in {<<47, 97>>} |->
                [st_atime |-> 1600000, st_mtime |-> 1600001, ms |-> <<>>,
                 target |-> <<>>]]
    /\ call = NoCall
    /\ probe = ProbeOff

TimesNext ==
    \/ Utime0
    \/ PosixGetStat0
    \/ UnixGetStat0
    \/ Resume

TimesSpec == TimesInit /\ [][TimesNext]_vars

\* A millisecond value with its sub-second part dropped.
WholeSecondsMs(ms) == IF ms >= 0 THEN ms - (ms % 1000) ELSE ms + ((0 - ms) % 1000)

\* The getStat0 that has returned found the file.
StatFound ==
    /\ call.op = "getStat0"
    /\ call.calls # <<>>
    /\ call.calls[1].rc = 0
    /\ call.thrown = <<>>
    /\ call.gen = "posix" => call.ret.kind = "object"

\* The Stat it delivered, and the struct stat the kernel had filled.
StatDelivered == IF call.gen = "posix" THEN call.ret.val ELSE jstat
StatBuffer == (CHOOSE i \in 1..Len(call.bufs) : call.bufs[i].type = "struct stat")

\* C12: utime0 hands utime the millisecond arguments with the sub-second
\* part dropped, as whole seconds; a later getStat0 of the same file reports
\* those seconds times 1000 as access and modification time; every time
\* getStat0 reports is the kernel's seconds value times 1000.
C12_SetTimesReadBack ==
    /\ (call.op = "utime0" /\ call.calls # <<>>) =>
          /\ 1000 * call.calls[1].args[2].actime = WholeSecondsMs(call.args[2])
          /\ 1000 * call.calls[1].args[2].modtime = WholeSecondsMs(call.args[3])
    /\ StatFound =>
          LET st == StatDelivered
              k == call.bufs[StatBuffer].data[1]
              path == call.calls[1].args[1]
          IN  /\ st.accessTime = 1000 * k.st_atime
              /\ st.modifyTime = 1000 * k.st_mtime
              /\ st.changeTime = 1000 * k.st_ctime
              /\ (path \in DOMAIN fs /\ fs[path].ms # <<>>) =>
                    /\ st.accessTime = WholeSecondsMs(fs[path].ms[1])
                    /\ st.modifyTime = WholeSecondsMs(fs[path].ms[2])

\* After utime0("/a", 1700000123, 1700000456), getStat0("/a") reported
\* 1700000000 for both times.
C12_Witness ==
    /\ StatFound
    /\ call.calls[1].args[1] \in DOMAIN fs
    /\ fs[call.calls[1].args[1]].ms = <<1700000123, 1700000456>>
    /\ StatDelivered.accessTime = 1700000000
    /\ StatDelivered.modifyTime = 1700000000

(***************************************************************************)
(* Named pipes.                                                            *)
(***************************************************************************)
\* C13: for a mode of permission bits only, mkfifo0 makes the call
\* mknod0(path, S_IFIFO | mode, 0) makes: mknod with device 0 and a mode
\* whose type bits (0xF000) are the FIFO type 0x1000 and whose permission
\* bits (07777) are the mode supplied.
C13_MkfifoIsMknodFifo ==
    (call.op = "mkfifo0" /\ call.calls # <<>> /\ call.args[2] \div 4096 = 0) =>
        /\ Len(call.calls) = 1
        /\ call.calls[1].name = "mknod"
        /\ Len(call.calls[1].args) = 3
        /\ (call.calls[1].args[2] \div 4096) % 16 = 1
        /\ call.calls[1].args[2] \div 65536 = 0
        /\ call.calls[1].args[2] % 4096 = call.args[2]
        /\ call.calls[1].args[3] = 0

\* mkfifo0 with mode 0644 called mknod with mode 010644 (4516).
C13_Witness ==
    /\ call.op = "mkfifo0"
    /\ call.args[2] = 420
    /\ call.calls # <<>>
    /\ call.calls[1].name = "mknod"
    /\ call.calls[1].args[2] = 4516
    /\ call.calls[1].rc = 0

(***************************************************************************)
(* Temporary files.                                                        *)
(***************************************************************************)
\* mkstemp answered a descriptor and the close of it failed.
CloseFailedAfterMkstemp ==
    /\ call.op = "mktemp0"
    /\ Len(call.calls) >= 2
    /\ call.calls[1].name = "mkstemp" /\ call.calls[1].rc # 0 - 1
    /\ call.calls[2].name = "close" /\ call.calls[2].rc = 0 - 1

\* C14: mktemp0 returns a path only when mkstemp and the close of its
\* descriptor both succeeded; when close fails after mkstemp succeeded,
\* exactly the failure classified from the error of close is raised, no
\* path is returned, and no further call is made (the file stays).
C14_MktempCloseFailure ==
    /\ (call.op = "mktemp0" /\ call.ret.kind = "string") =>
          /\ CallNames = <<"mkstemp", "close">>
          /\ call.calls[1].rc # 0 - 1
          /\ call.calls[2].rc = 0
          /\ call.calls[2].args = <<call.calls[1].rc>>
          /\ call.thrown = <<>>
    /\ CloseFailedAfterMkstemp =>
          /\ Len(call.thrown) = 1
          /\ call.thrown[1].by = "native"
          /\ Category(call.thrown[1].cls) = FixedTable(call.calls[2].err)
          /\ call.ret.kind = "null"
          /\ Len(call.calls) = 2

\* mkstemp created the file, close failed with EIO: IOException, no path.
C14_Witness ==
    /\ CloseFailedAfterMkstemp
    /\ call.calls[2].err = EIO
    /\ Len(call.thrown) = 1
    /\ call.thrown[1].cls = "java/io/IOException"
    /\ call.ret.kind = "null"

(***************************************************************************)
(* Symbolic link targets.                                                  *)
(***************************************************************************)
\* "/a" is a symbolic link no other process touches; its target is one byte
\* shorter than readlink is asked for, as long, or longer.
LinkInit ==
    /\ errno = 0
    /\ heap = <<>>
    /\ openFds = {}
    /\ jstat = Stat(FALSE, 0, 0, 0, 0, 0, 0, 0, 0, 0, 0, 0, 0, 0)
    /\ fs \in {[path \in {<<47, 97>>} |->
                   [st_atime |-> 1600000, st_mtime |-> 1600001, ms |-> <<>>,
                    target |-> Varied(n)]] : n \in {4095, 4096, 4096 + LongBy}}
    /\ call = NoCall
    /\ probe = ProbeOff

LinkNext ==
    \/ ReadLink0
    \/ Resume

LinkSpec == LinkInit /\ [][LinkNext]_vars

Min(a, b) == IF a < b THEN a ELSE b

\* The target the kernel held for the path readlink was handed.
TargetRead ==
    IF call.calls[1].args[1] \in DOMAIN fs THEN fs[call.calls[1].args[1]].target
    ELSE call.target

\* readLink0 has returned, readlink having answered a count, and no
\* allocation failed.
LinkRead ==
    /\ call.op = "readLink0"
    /\ call.fail = {}
    /\ call.calls # <<>>
    /\ call.calls[1].name = "readlink"
    /\ call.calls[1].rc # 0 - 1

\* C15: readLink0 asks readlink for at most 4096 bytes; the string it
\* returns has min(n, 4096) characters, character i being byte i of the
\* n-byte target, and nothing is raised, also when n is more than 4096.
C15_ReadLinkBound ==
    /\ (call.op = "readLink0" /\ call.calls # <<>>) => call.calls[1].args[2] = 4096
    /\ LinkRead =>
          /\ call.thrown = <<>>
          /\ call.ret.kind = "string"
          /\ Len(call.ret.val) = Min(Len(TargetRead), 4096)
          /\ \A i \in 1..Len(call.ret.val) : call.ret.val[i] = TargetRead[i]

\* A target of more than 4096 bytes came back as its first 4096 bytes.
C15_Witness ==
    /\ LinkRead
    /\ Len(TargetRead) > 4096
    /\ call.ret.kind = "string"
    /\ Len(call.ret.val) = 4096
    /\ call.ret.val[4096] = TargetRead[4096]
    /\ call.thrown = <<>>

(***************************************************************************)
(* The header addEntropy0 builds, for every array length.                  *)
(***************************************************************************)
\* Largest of the small array lengths tried.
EntropyMaxLen == 64

\* Array lengths: small ones, and the ones around the lengths at which
\* 8*len passes what a 32-bit int holds (2^28, 2^29, 2^30, 2^31 - 1).
EntropyLens ==
    (0..EntropyMaxLen)
        \cup {268435455, 268435456, 268435457, 536870912, 1073741824, 2147483647}

EntropyInit ==
    /\ errno = 0
    /\ heap = <<>>
    /\ openFds = {}
    /\ jstat = Stat(FALSE, 0, 0, 0, 0, 0, 0, 0, 0, 0, 0, 0, 0, 0)
    /\ fs = NoFiles
    /\ call = NoCall
    /\ probe \in {[phase |-> "length", len |-> n, header |-> <<>>] : n \in EntropyLens}

\* DevRandom.c addEntropy0, lines 46-50: the header for an array of
\* probe.len bytes.
BuildRandPoolHeader ==
    /\ probe.phase = "length"
    /\ \E header \in RandPoolHeaders(probe.len, Env({}, {}, 0).garbage) :
          probe' = [probe EXCEPT !.phase = "header", !.header = header]
    /\ UNCHANGED <<errno, heap, openFds, jstat, fs, call>>

EntropyNext ==
    \/ BuildRandPoolHeader

EntropySpec == EntropyInit /\ [][EntropyNext]_vars

\* C16: the entropy credit handed to the kernel is 8*len and the declared
\* buffer size is len, for every array length len.
C16_EntropyCredit ==
    probe.phase = "header" =>
        /\ probe.header.entropy_count % 8 = 0
        /\ probe.header.entropy_count \div 8 = probe.len
        /\ probe.header.buf_size = probe.len

\* What the rest of the claim says of the arrays the operation is run on:
\* ioctl is handed the bytes of the array in order, its length, and eight
\* times its length.
EntropyBytesInOrder ==
    \A i \in 1..Len(call.calls) :
        (call.op = "addEntropy0" /\ call.calls[i].name = "ioctl") =>
            /\ call.calls[i].args[3].buf = call.args[1]
            /\ call.calls[i].args[3].buf_size = Len(call.args[1])
            /\ call.calls[i].args[3].entropy_count = 8 * Len(call.args[1])


\* The unsigned value of a C char.
Unsigned(b) == IF b < 0 THEN b + 256 ELSE b

\* C17: whichever buffer newString8859_1 fills (the 512-unit automatic one
\* for up to 512 bytes, a malloc'ed one above), the string it returns has
\* one character per byte before the terminator, character i being the
\* unsigned value of byte i; with no allocation failing it returns a string.
C17_DecodeBothPaths ==
    probe.phase = "decoded"
        => /\ probe.fail = {} => ~probe.out.null
           /\ ~probe.out.null =>
                /\ Len(probe.out.chars) = strlen(probe.enc)
                /\ \A i \in 1..Len(probe.out.chars) :
                      /\ probe.enc[i] # 0
                      /\ probe.out.chars[i] = Unsigned(probe.enc[i])
                      /\ probe.out.chars[i] \in 1..255

\* 513 bytes, one more than the automatic buffer holds, were decoded through
\* the malloc'ed buffer: 512 e-acute and a closing y-diaeresis.
C17_Witness ==
    /\ probe.phase = "decoded"
    /\ strlen(probe.enc) = 513
    /\ probe.enc[512] = 233 - 256
    /\ probe.enc[513] = 0 - 1
    /\ ~probe.out.null
    /\ Len(probe.out.chars) = 513
    /\ probe.out.chars[512] = 233
    /\ probe.out.chars[513] = 255


\* How many leading arguments of an operation are strings.
StringArgs(op) == IF op = "crypt0" THEN 2 ELSE PathArgs(op)

\* Bytes b are the single-byte encoding of chars: one byte per character,
\* the codepoint up to 255 and '?' above.
SingleByte(b, chars) ==
    /\ Len(b) = Len(chars)
    /\ \A i \in 1..Len(chars) : Unsigned(b[i]) = EncodedByte(chars[i])

\* String s is the single-byte decoding of bytes b: one character per byte,
\* its unsigned value.
SingleChar(s, b) ==
    /\ Len(s) = Len(b)
    /\ \A i \in 1..Len(b) : s[i] = Unsigned(b[i])

\* The strings of the operation that returned crossed the boundary in the
\* single-byte encoding, in both directions.
SingleByteMarshalled ==
        /\ \A a \in 1..StringArgs(call.op) :
              \E k \in 1..StringArgs(call.op) :
                 SingleByte(call.calls[1].args[k], call.args[a].chars)
        /\ (call.op = "crypt0" /\ call.ret.kind = "string")
              => SingleChar(call.ret.val, call.hash)
        /\ (call.op = "readLink0" /\ call.ret.kind = "string")
              => SingleChar(call.ret.val, SubSeq(TargetRead, 1, Min(Len(TargetRead), 4096)))
        /\ (call.op = "mktemp0" /\ call.ret.kind = "string")
              => /\ Len(call.ret.val) = Len(call.args[1].chars)
                 /\ \A i \in 1..Len(call.ret.val) :
                       /\ call.ret.val[i] \in 1..255
                       /\ i <= Len(call.ret.val) - 6
                             => call.ret.val[i] = EncodedByte(call.args[1].chars[i])

\* C18: every string argument reaches the POSIX call as its single-byte
\* encoding (password and salt of crypt0 included), and every string
\* returned has one character per byte of what the call produced (the hash
\* of crypt0, the target of readLink0, the name of mktemp0).
C18_SingleByteEverywhere ==
    (StringArgs(call.op) > 0 /\ call.calls # <<>>) => SingleByteMarshalled

\* Every operation but crypt0 marshals its strings in the single-byte
\* encoding.
SingleByteButCrypt0 ==
    (StringArgs(call.op) > 0 /\ call.calls # <<>> /\ call.op # "crypt0")
        => SingleByteMarshalled


\* Call i of the operation that returned answered a descriptor.
Obtained(i) ==
    /\ call.calls[i].name \in {"mkstemp", "open"}
    /\ call.calls[i].rc >= 0

\* The descriptor call i answered was handed to close later in the operation.
ClosedLater(i) ==
    \E j \in (i + 1)..Len(call.calls) :
        /\ call.calls[j].name = "close"
        /\ call.calls[j].args = <<call.calls[i].rc>>

\* C19: every descriptor mkstemp or open answered (any value from 0 up) was
\* handed to close before the operation returned, and no descriptor of this
\* layer is open between operations.
C19_DescriptorsClosed ==
    /\ openFds = {}
    /\ \A i \in 1..Len(call.calls) : Obtained(i) => ClosedLater(i)

\* Every descriptor but a descriptor 0 answered by open is closed before the
\* operation returns; only descriptor 0 can stay open.
DescriptorsClosedButZero ==
    /\ openFds \subseteq {0}
    /\ \A i \in 1..Len(call.calls) :
          (Obtained(i) /\ ~(call.calls[i].name = "open" /\ call.calls[i].rc = 0))
              => ClosedLater(i)


\* The operation that returned hands a value (a reference) to the host.
ValueReturning ==
    \/ call.op \in {"crypt0", "mktemp0", "readLink0"}
    \/ call.op = "getStat0" /\ call.gen = "posix"

\* The exceptions the operation raised with the class getErrorType chose.
ClassifiedThrows == {k \in 1..Len(call.thrown) : call.thrown[k].by = "native"}

\* The lookups of an exception class (the lookup of the Stat class is none).
ExceptionLookups ==
    {k \in 1..Len(call.lookups) :
        call.lookups[k].cls \notin {"com/aoapps/io/posix/Stat", "com/aoindustries/io/unix/Stat"}}

\* C20: getStat0, crypt0, mktemp0 and readLink0 hand back null whenever they
\* raise a classified failure and raise none whenever they hand back a
\* value; an exception class is looked up at most once and an exception
\* raised at most once per invocation.
C20_ValueOrFailure ==
    (call.op \in {"getStat0", "crypt0", "mktemp0", "readLink0"}) =>
        /\ (ValueReturning /\ ClassifiedThrows # {}) => call.ret.kind = "null"
        /\ (ValueReturning /\ call.ret.kind # "null")
              => /\ call.ret.kind \in {"string", "object"}
                 /\ ClassifiedThrows = {}
        /\ Cardinality(ExceptionLookups) <= 1
        /\ Len(call.thrown) <= 1

\* mktemp0 found the name taken: EEXIST was classified once, one exception
\* was raised and null handed back.
C20_Witness ==
    /\ call.op = "mktemp0"
    /\ Len(call.calls) = 1
    /\ call.calls[1].err = EEXIST
    /\ Cardinality(ExceptionLookups) = 1
    /\ Cardinality(ClassifiedThrows) = 1
    /\ Len(call.thrown) = 1
    /\ call.ret.kind = "null"


(***************************************************************************)
(* The operations that write into buffers of this layer, on inputs around  *)
(* the sizes of those buffers: the marshaling pair on strings around 512   *)
(* characters, readLink0 on targets around 4096 bytes, mktemp0.            *)
(***************************************************************************)
BufferInit == Init \/ LinkInit \/ CodecInit

BufferNext ==
    \/ ReadLink0
    \/ Mktemp0
    \/ CodecEncode
    \/ CodecDecode
    \/ Resume

BufferSpec == BufferInit /\ [][BufferNext]_vars

\* The buffers of the operation that returned, or of the marshaling step
\* that was taken.
BuffersSeen == IF probe.phase = "off" THEN call.bufs ELSE probe.bufs

\* The highest index written into b is inside b.
WrittenInside(b) == b.maxw < b.size

\* C21: every write goes inside the buffer written: encode fills indices
\* 0..len of its len+1 bytes; decode fills the 512-unit automatic buffer
\* only up to index 511 and a malloc'ed buffer of len units up to len-1;
\* readLink0 puts the terminator at an index up to 4096 of its 4097 bytes;
\* mktemp0 copies strlen(template)+1 bytes into a buffer of that size.
C21_WritesInBounds ==
    \A i \in 1..Len(BuffersSeen) :
        LET b == BuffersSeen[i] IN
        /\ WrittenInside(b)
        /\ (b.kind = "stack" /\ b.type = "jchar[]") => b.size = 512 /\ b.maxw <= 511
        /\ (b.kind = "malloc" /\ b.type = "jchar[]") => b.size > 512 /\ b.maxw = b.size - 1
        /\ (probe.phase = "encoded" /\ b.kind = "malloc" /\ b.type = "char[]")
              => b.size = Len(probe.s.chars) + 1 /\ b.maxw = Len(probe.s.chars)
        /\ (call.op = "readLink0" /\ b.kind = "malloc" /\ b.size = 4097)
              => b.maxw <= 4096
        /\ (call.op = "mktemp0" /\ b.kind = "malloc" /\ b.type = "char[]")
              => b.size = Len(call.args[1].chars) + 1
                 /\ b.maxw \in {0 - 1, Len(call.args[1].chars)}

\* readLink0 read a target that fills all 4096 bytes asked for: the
\* terminator went to index 4096, the last of the 4097-byte buffer, and the
\* 4096 characters were decoded through a malloc'ed buffer of 4096 units.
C21_Witness ==
    /\ call.op = "readLink0"
    /\ call.ret.kind = "string"
    /\ \E i \in 1..Len(call.bufs) :
          /\ call.bufs[i].type = "char[]"
          /\ call.bufs[i].size = 4097
          /\ call.bufs[i].maxw = 4096
    /\ \E i \in 1..Len(call.bufs) :
          /\ call.bufs[i].type = "jchar[]"
          /\ call.bufs[i].kind = "malloc"
          /\ call.bufs[i].size = 4096
          /\ call.bufs[i].maxw = 4095


\* C22: decode(encode(s)) is s with '?' for every codepoint above 255, cut
\* before its first codepoint 0: nothing of s from that codepoint on comes
\* back, and no failure is raised for it.  encode keeps each codepoint 0 as
\* a zero byte at its place in the buffer.
C22_RoundTripCutAtZero ==
    probe.phase = "decoded" =>
        /\ Len(probe.enc) = Len(probe.s.chars) + 1
        /\ \A i \in 1..Len(probe.s.chars) : probe.s.chars[i] = 0 <=> probe.enc[i] = 0
        /\ probe.fail = {} => ~probe.out.null /\ probe.thrown = <<>>
        /\ ~probe.out.null =>
              LET n == Len(probe.out.chars) IN
              /\ n <= Len(probe.s.chars)
              /\ \A i \in 1..n :
                    /\ probe.s.chars[i] # 0
                    /\ probe.out.chars[i] = EncodedByte(probe.s.chars[i])
              /\ n < Len(probe.s.chars) => probe.s.chars[n + 1] = 0

\* The euro sign followed by codepoint 0 came back as "?" alone, with
\* nothing raised.
C22_Witness ==
    /\ probe.phase = "decoded"
    /\ probe.s.chars = <<8364, 0>>
    /\ ~probe.out.null
    /\ probe.out.chars = <<63>>
    /\ probe.thrown = <<>>

====
